---- MODULE Spec2Model ----
(***************************************************************************)
(* The client of the student attendance tracker (frontend/src/App.js):    *)
(* the useAuth hook, the ProtectedRoute guard, the Login and Register     *)
(* forms and the Dashboard's data loading.                                *)
(*                                                                         *)
(* useAuth is a hook, not a context: every component that calls it owns   *)
(* its own isAuthenticated / user / loading state.  The only thing the    *)
(* instances share is the token in localStorage.                          *)
(*                                                                         *)
(* One step of the model is one JavaScript task: a page load, the effects *)
(* flushed after a commit, a user event handler, or the continuation run  *)
(* when a network response arrives.  The setState calls of one task are   *)
(* committed together (React 18 batching; framer-motion's                  *)
(* AnimatePresence mode="wait" requires React 18).  Two continuations are *)
(* kept as steps of their own, login()/register() returning and the form  *)
(* handler resuming, and nothing else runs between them.                  *)
(***************************************************************************)
EXTENDS Integers, FiniteSets, Sequences, TLC

\* Bounds of the model
NumTokens == 2
NumUsers == 1
NumPayloads == 1

MaxRecords == 3

\* localStorage.getItem("token") when nothing is stored (null)
NoToken == 0
\* the access tokens the backend can issue
Tokens == 1..NumTokens
\* useState(null) for user
Null == 0
\* the profiles GET /me can return
Users == 1..NumUsers
\* useState([]) for the three dashboard datasets
Empty == 0
\* the bodies the dataset endpoints can return (an empty list included)
Payloads == Empty..NumPayloads
\* the three dataset endpoints
DataUrls == {"/attendance/summary", "/attendance", "/subjects"}

\* the components that call useAuth(); each owns one instance of its state
Instances == {"Login", "Register", "ProtectedRoute", "Dashboard"}
\* the client routes ("/" is replaced by "/login")
Paths == {"/login", "/register", "/dashboard"}
Tabs == {"summary", "trend", "details"}

\* The attendance records getTrendData is run on.  A record's date is a
\* timestamp, read in local time as a calendar day (month, day) of one year
\* and a time of day; the sample days include 2 January and 1 February, whose
\* day-first and month-first spellings swap.
TrendDays == {<<1, 2>>, <<2, 1>>, <<2, 2>>}
TimesOfDay == {9, 14}
Statuses == {"present", "absent"}
AttendanceRecords ==
  [date : [month : {d[1] : d \in TrendDays}, day : {d[2] : d \in TrendDays},
           time : TimesOfDay],
   status : Statuses]
RecordLists ==
  UNION {[1..n -> {r \in AttendanceRecords : <<r.date.month, r.date.day>> \in TrendDays}]
           : n \in 0..MaxRecords}
\* The default locale of the runtime, which toLocaleDateString() without
\* arguments formats in: month first (en-US) or day first (en-GB).
Locales == {"en-US", "en-GB"}

VARIABLES
  token,              \* localStorage "token"
  route,              \* the route rendered by <Routes>
  mounted,            \* which components are mounted
  isAuthenticated,    \* useAuth state, per instance
  user,               \* useAuth state, per instance
  loading,            \* useAuth state, per instance
  effectPending,      \* the mount effects of the instance have not run yet
  startup,            \* the startup fetchUser of the instance
  guardEffectPending, \* ProtectedRoute's effect has to run (deps changed)
  inflight,           \* the requests sent and not yet answered
  loginPc,            \* Login.handleSubmit / login position
  loginFetch,         \* how the fetchUser awaited by login settled
  loginError,         \* Login's error banner
  loginLoading,       \* Login's submit-in-progress flag
  registerPc,         \* Register.handleSubmit / register position
  registerError,      \* Register's error banner
  registerLoading,    \* Register's submit-in-progress flag
  dashLoading,        \* Dashboard's own loading flag
  dashPc,             \* Dashboard fetchData position
  dashFetch,          \* each dataset request: not sent, in flight, ok or failed
  activeTab,          \* Dashboard tab
  attendanceSummary,  \* Dashboard dataset
  attendanceRecords,  \* Dashboard dataset
  subjects,           \* Dashboard dataset
  event,              \* the task that produced the state
  locale,             \* the runtime's default locale
  records,            \* getTrendData: the attendanceRecords it reads
  trendPc,            \* getTrendData position
  trendIdx,           \* getTrendData: index of the forEach iteration
  recordsByDate,      \* getTrendData: the object's entries, in insertion order
  dates,              \* getTrendData: labels
  percentages         \* getTrendData: datasets[0].data

authVars == <<isAuthenticated, user, loading>>
loginVars == <<loginPc, loginFetch, loginError, loginLoading>>
registerVars == <<registerPc, registerError, registerLoading>>
dashVars == <<dashLoading, dashPc, dashFetch, activeTab, attendanceSummary, attendanceRecords, subjects>>
trendVars == <<locale, records, trendPc, trendIdx, recordsByDate, dates, percentages>>
vars == <<token, route, mounted, isAuthenticated, user, loading, effectPending,
          startup, guardEffectPending, inflight, loginPc, loginFetch, loginError,
          loginLoading, registerPc, registerError, registerLoading, dashLoading,
          dashPc, dashFetch, activeTab, attendanceSummary, attendanceRecords, subjects,
          event, locale, records, trendPc, trendIdx, recordsByDate, dates, percentages>>

-----------------------------------------------------------------------------
\* Mutant: the interceptor sets the header without testing the token.
Authorization_Unconditional(t) ==
  <<"Bearer", t>>

\* The request interceptor: the Authorization header of a request issued
\* while localStorage holds t (<<>> when no header is set).
Authorization(t) ==
  IF t # NoToken THEN <<"Bearer", t>> ELSE <<>>

\* A request as it leaves the client.
Request(url, by, via, t) ==
  [url |-> url, by |-> by, via |-> via, auth |-> Authorization(t)]

\* The element <Routes> renders for a path.
ElementOf(r) ==
  CASE r = "/login" -> "Login"
    [] r = "/register" -> "Register"
    [] r = "/dashboard" -> "ProtectedRoute"

\* Mutant: the guard renders its children as soon as loading is over.
GuardRender_IgnoresAuth(l, a) ==
  IF l THEN "Loading..." ELSE "children"

\* What ProtectedRoute returns for its session.
GuardRender(l, a) ==
  IF l THEN "Loading..." ELSE IF a THEN "children" ELSE "null"

\* Mutant: the effect redirects without waiting for loading to clear.
GuardShouldRedirect_IgnoresLoading(l, a) ==
  ~a

\* The condition of ProtectedRoute's effect.
GuardShouldRedirect(l, a) ==
  ~l /\ ~a

\* Mutant: the startup effect calls fetchUser whether or not a token is stored.
StartupFetches_Always(t) ==
  TRUE

\* The startup effect's test of the persisted token.
StartupFetches(t) ==
  t # NoToken

\* Mutant: the catch block does not reset isAuthenticated, which login has
\* already set.
FetchUserIsAuthenticated_NoReset(ok) ==
  TRUE

\* fetchUser: the isAuthenticated it sets (try / catch).
FetchUserIsAuthenticated(ok) ==
  ok

\* Mutant: the catch block does not clear the user.
FetchUserUser_NoClear(ok, data) ==
  data

\* fetchUser: the user it sets (try / catch).
FetchUserUser(ok, data) ==
  IF ok THEN data ELSE Null

\* fetchUser: the loading it sets (finally).
FetchUserLoading ==
  FALSE

\* Mutant: the catch block also removes the token that failed.
FetchUserToken_RemovedOnFailure(ok, t) ==
  IF ok THEN t ELSE NoToken

\* fetchUser: the persisted token after it ran (it never touches localStorage).
FetchUserToken(ok, t) ==
  t

\* login: the token it stores after POST /login succeeded.
LoginStoredToken(accessToken) ==
  accessToken

\* login: the isAuthenticated it sets before awaiting fetchUser.
LoginIsAuthenticated ==
  TRUE

\* Mutant: handleSubmit navigates without looking at what login returned.
LoginNavigates_Always(success) ==
  TRUE

\* Login.handleSubmit: whether it navigates to the dashboard, given what login
\* returned.
LoginNavigates(success) ==
  success

\* Mutant: a successful registration goes straight to the dashboard.
RegisterTarget_Dashboard ==
  "/dashboard"

\* Register.handleSubmit: where it navigates after register returned true.
RegisterTarget ==
  "/login"

\* Mutant: logout leaves the token in localStorage.
LogoutToken_Kept ==
  token

\* logout: the three writes.
LogoutToken ==
  NoToken

LogoutIsAuthenticated ==
  FALSE

LogoutUser ==
  Null

\* No continuation or effect is waiting to run: the event loop is free to take
\* a user event or a network response.
Quiescent ==
  /\ \A i \in Instances : ~effectPending[i]
  /\ ~guardEffectPending
  /\ loginPc \notin {"returnedTrue", "returnedFalse"}
  /\ registerPc \notin {"returnedTrue", "returnedFalse"}

-----------------------------------------------------------------------------
\* The state of a freshly rendered route r: the route's element is mounted with
\* the initial useState values, its effects still to run.  Everything that was
\* mounted before is gone, and what it had in flight can no longer change any
\* state (a full page load drops it; after navigate() its setState calls land
\* on an unmounted component).
Rendered(r) ==
  /\ route' = r
  /\ mounted' = [i \in Instances |-> i = ElementOf(r)]
  /\ isAuthenticated' = [i \in Instances |-> FALSE]
  /\ user' = [i \in Instances |-> Null]
  /\ loading' = [i \in Instances |-> TRUE]
  /\ effectPending' = [i \in Instances |-> i = ElementOf(r)]
  /\ startup' = [i \in Instances |-> "idle"]
  /\ guardEffectPending' = (ElementOf(r) = "ProtectedRoute")
  /\ inflight' = {}
  /\ loginPc' = "idle"
  /\ loginFetch' = "none"
  /\ loginError' = ""
  /\ loginLoading' = FALSE
  /\ registerPc' = "idle"
  /\ registerError' = ""
  /\ registerLoading' = FALSE
  /\ dashLoading' = TRUE
  /\ dashPc' = "idle"
  /\ dashFetch' = [u \in DataUrls |-> "none"]
  /\ activeTab' = "summary"
  /\ attendanceSummary' = Empty
  /\ attendanceRecords' = Empty
  /\ subjects' = Empty

\* The application opened for the first time, on any of its routes.
AppInit ==
  /\ token = NoToken
  /\ route \in Paths
  /\ mounted = [i \in Instances |-> i = ElementOf(route)]
  /\ isAuthenticated = [i \in Instances |-> FALSE]
  /\ user = [i \in Instances |-> Null]
  /\ loading = [i \in Instances |-> TRUE]
  /\ effectPending = [i \in Instances |-> i = ElementOf(route)]
  /\ startup = [i \in Instances |-> "idle"]
  /\ guardEffectPending = (ElementOf(route) = "ProtectedRoute")
  /\ inflight = {}
  /\ loginPc = "idle"
  /\ loginFetch = "none"
  /\ loginError = ""
  /\ loginLoading = FALSE
  /\ registerPc = "idle"
  /\ registerError = ""
  /\ registerLoading = FALSE
  /\ dashLoading = TRUE
  /\ dashPc = "idle"
  /\ dashFetch = [u \in DataUrls |-> "none"]
  /\ activeTab = "summary"
  /\ attendanceSummary = Empty
  /\ attendanceRecords = Empty
  /\ subjects = Empty
  /\ event = "Load"

\* getTrendData not running.
TrendIdle ==
  /\ locale = "en-US"
  /\ records = <<>>
  /\ trendPc = "idle"
  /\ trendIdx = 1
  /\ recordsByDate = <<>>
  /\ dates = <<>>
  /\ percentages = <<>>

Init ==
  AppInit /\ TrendIdle

\* The user opens a URL of the application (address bar, reload, or one of the
\* <a href> links of the forms): a full page load that keeps only localStorage.
Visit(r) ==
  /\ Quiescent
  /\ Rendered(r)
  /\ UNCHANGED token
  /\ event' = "Visit"
  /\ UNCHANGED trendVars

-----------------------------------------------------------------------------
\* useAuth's startup effect for instance i; `also` are the requests the other
\* mount effects of the same component issue in the same flush.
UseAuthEffect(i, also) ==
  IF StartupFetches(token)
  THEN /\ inflight' = inflight \cup {Request("/me", i, "startup", token)} \cup also
       /\ startup' = [startup EXCEPT ![i] = "inflight"]
       /\ UNCHANGED loading
  ELSE /\ inflight' = inflight \cup also
       /\ startup' = [startup EXCEPT ![i] = "skipped"]
       /\ loading' = [loading EXCEPT ![i] = FALSE]

\* The mount effects of Login or Register: useAuth's startup effect.
FormMountEffects(i) ==
  /\ i \in {"Login", "Register"}
  /\ mounted[i] /\ effectPending[i]
  /\ UseAuthEffect(i, {})
  /\ effectPending' = [effectPending EXCEPT ![i] = FALSE]
  /\ event' = "MountEffects"
  /\ UNCHANGED trendVars
  /\ UNCHANGED <<token, route, mounted, isAuthenticated, user, guardEffectPending>>
  /\ UNCHANGED <<loginVars, registerVars, dashVars>>

\* The mount effects of ProtectedRoute: useAuth's startup effect, then the
\* guard's own effect, which sees the values of the render it belongs to.
GuardMountEffects ==
  /\ mounted["ProtectedRoute"] /\ effectPending["ProtectedRoute"]
  /\ IF GuardShouldRedirect(loading["ProtectedRoute"], isAuthenticated["ProtectedRoute"])
     THEN /\ Rendered("/login")
          /\ event' = "GuardRedirect"
          /\ UNCHANGED trendVars
          /\ UNCHANGED token
     ELSE /\ UseAuthEffect("ProtectedRoute", {})
          /\ effectPending' = [effectPending EXCEPT !["ProtectedRoute"] = FALSE]
          /\ guardEffectPending' = (loading'["ProtectedRoute"] # loading["ProtectedRoute"])
          /\ event' = "MountEffects"
          /\ UNCHANGED trendVars
          /\ UNCHANGED <<token, route, mounted, isAuthenticated, user>>
          /\ UNCHANGED <<loginVars, registerVars, dashVars>>

\* ProtectedRoute's effect, run again because isAuthenticated or loading changed.
GuardEffect ==
  /\ mounted["ProtectedRoute"] /\ ~effectPending["ProtectedRoute"]
  /\ ~effectPending["Dashboard"]
  /\ guardEffectPending
  /\ IF GuardShouldRedirect(loading["ProtectedRoute"], isAuthenticated["ProtectedRoute"])
     THEN /\ Rendered("/login")
          /\ event' = "GuardRedirect"
          /\ UNCHANGED trendVars
          /\ UNCHANGED token
     ELSE /\ guardEffectPending' = FALSE
          /\ event' = "GuardEffect"
          /\ UNCHANGED trendVars
          /\ UNCHANGED <<token, route, mounted, authVars, effectPending, startup, inflight>>
          /\ UNCHANGED <<loginVars, registerVars, dashVars>>

\* The mount effects of Dashboard: useAuth's startup effect, then fetchData(),
\* which runs up to its first await.
DashboardMountEffects ==
  /\ mounted["Dashboard"] /\ effectPending["Dashboard"]
  /\ UseAuthEffect("Dashboard",
                   {Request("/attendance/summary", "Dashboard", "fetchData", token)})
  /\ effectPending' = [effectPending EXCEPT !["Dashboard"] = FALSE]
  /\ dashPc' = "summary"
  /\ dashFetch' = [dashFetch EXCEPT !["/attendance/summary"] = "inflight"]
  /\ event' = "MountEffects"
  /\ UNCHANGED trendVars
  /\ UNCHANGED <<token, route, mounted, isAuthenticated, user, guardEffectPending>>
  /\ UNCHANGED <<loginVars, registerVars>>
  /\ UNCHANGED <<dashLoading, activeTab, attendanceSummary, attendanceRecords, subjects>>

\* The GET /me of instance i's startup effect is answered: the rest of
\* fetchUser runs.  For ProtectedRoute the commit that follows renders the
\* children, which mounts Dashboard, and schedules the guard's effect.
StartupFetchSettle(i, ok, data) ==
  /\ Quiescent
  /\ mounted[i] /\ startup[i] = "inflight"
  /\ \E q \in inflight :
       /\ q.url = "/me" /\ q.by = i /\ q.via = "startup"
       /\ inflight' = inflight \ {q}
  /\ isAuthenticated' = [isAuthenticated EXCEPT ![i] = FetchUserIsAuthenticated(ok)]
  /\ user' = [user EXCEPT ![i] = FetchUserUser(ok, data)]
  /\ loading' = [loading EXCEPT ![i] = FetchUserLoading]
  /\ startup' = [startup EXCEPT ![i] = IF ok THEN "ok" ELSE "fail"]
  /\ IF i = "ProtectedRoute"
     THEN /\ guardEffectPending' = (<<loading'[i], isAuthenticated'[i]>>
                                      # <<loading[i], isAuthenticated[i]>>)
          /\ mounted' = [mounted EXCEPT !["Dashboard"] =
                           GuardRender(loading'[i], isAuthenticated'[i]) = "children"]
          /\ effectPending' = [effectPending EXCEPT !["Dashboard"] =
                                 mounted'["Dashboard"] /\ ~mounted["Dashboard"]]
     ELSE UNCHANGED <<guardEffectPending, mounted, effectPending>>
  /\ event' = "StartupFetchSettle"
  /\ UNCHANGED trendVars
  /\ token' = FetchUserToken(ok, token)
  /\ UNCHANGED route
  /\ UNCHANGED <<loginVars, registerVars, dashVars>>

-----------------------------------------------------------------------------
\* Login.handleSubmit up to login's await of POST /login.
LoginSubmit ==
  /\ Quiescent
  /\ mounted["Login"] /\ loginPc = "idle" /\ ~loginLoading
  /\ loginError' = ""
  /\ loginLoading' = TRUE
  /\ inflight' = inflight \cup {Request("/login", "Login", "login", token)}
  /\ loginPc' = "awaitPost"
  /\ loginFetch' = "none"
  /\ event' = "LoginSubmit"
  /\ UNCHANGED trendVars
  /\ UNCHANGED <<token, route, mounted, authVars, effectPending, startup, guardEffectPending>>
  /\ UNCHANGED <<registerVars, dashVars>>

\* POST /login answered with an access token: login stores it, marks the
\* session authenticated and calls fetchUser, which sends GET /me.
LoginPostOk(accessToken) ==
  /\ Quiescent
  /\ mounted["Login"] /\ loginPc = "awaitPost"
  /\ token' = LoginStoredToken(accessToken)
  /\ isAuthenticated' = [isAuthenticated EXCEPT !["Login"] = LoginIsAuthenticated]
  /\ \E q \in inflight :
       /\ q.url = "/login"
       /\ inflight' = (inflight \ {q}) \cup {Request("/me", "Login", "login", token')}
  /\ loginPc' = "awaitMe"
  /\ event' = "LoginPostOk"
  /\ UNCHANGED trendVars
  /\ UNCHANGED <<route, mounted, user, loading, effectPending, startup, guardEffectPending>>
  /\ UNCHANGED <<loginFetch, loginError, loginLoading>>
  /\ UNCHANGED <<registerVars, dashVars>>

\* POST /login failed: login's catch returns false.
LoginPostFail ==
  /\ Quiescent
  /\ mounted["Login"] /\ loginPc = "awaitPost"
  /\ \E q \in inflight :
       /\ q.url = "/login"
       /\ inflight' = inflight \ {q}
  /\ loginPc' = "returnedFalse"
  /\ event' = "LoginPostFail"
  /\ UNCHANGED trendVars
  /\ UNCHANGED <<token, route, mounted, authVars, effectPending, startup, guardEffectPending>>
  /\ UNCHANGED <<loginFetch, loginError, loginLoading>>
  /\ UNCHANGED <<registerVars, dashVars>>

\* The GET /me that login awaits is answered: the rest of fetchUser runs and
\* login returns true.
LoginFetchSettle(ok, data) ==
  /\ Quiescent
  /\ mounted["Login"] /\ loginPc = "awaitMe"
  /\ \E q \in inflight :
       /\ q.url = "/me" /\ q.by = "Login" /\ q.via = "login"
       /\ inflight' = inflight \ {q}
  /\ isAuthenticated' = [isAuthenticated EXCEPT !["Login"] = FetchUserIsAuthenticated(ok)]
  /\ user' = [user EXCEPT !["Login"] = FetchUserUser(ok, data)]
  /\ loading' = [loading EXCEPT !["Login"] = FetchUserLoading]
  /\ loginFetch' = IF ok THEN "ok" ELSE "fail"
  /\ loginPc' = "returnedTrue"
  /\ event' = "LoginFetchSettle"
  /\ UNCHANGED trendVars
  /\ token' = FetchUserToken(ok, token)
  /\ UNCHANGED <<route, mounted, effectPending, startup, guardEffectPending>>
  /\ UNCHANGED <<loginError, loginLoading>>
  /\ UNCHANGED <<registerVars, dashVars>>

\* Login.handleSubmit after login returned: navigate to the dashboard, or show
\* the inline error; finally clear the form's loading flag.
LoginResume ==
  /\ mounted["Login"] /\ loginPc \in {"returnedTrue", "returnedFalse"}
  /\ IF LoginNavigates(loginPc = "returnedTrue")
     THEN /\ Rendered("/dashboard")
          /\ event' = "LoginNavigate"
          /\ UNCHANGED trendVars
          /\ UNCHANGED token
     ELSE /\ loginError' = "Invalid email or password"
          /\ loginLoading' = FALSE
          /\ loginPc' = "idle"
          /\ event' = "LoginRejected"
          /\ UNCHANGED trendVars
          /\ UNCHANGED <<token, route, mounted, authVars, effectPending, startup,
                         guardEffectPending, inflight, loginFetch>>
          /\ UNCHANGED <<registerVars, dashVars>>

-----------------------------------------------------------------------------
\* Register.handleSubmit up to register's await of POST /register.
RegisterSubmit ==
  /\ Quiescent
  /\ mounted["Register"] /\ registerPc = "idle" /\ ~registerLoading
  /\ registerError' = ""
  /\ registerLoading' = TRUE
  /\ inflight' = inflight \cup {Request("/register", "Register", "register", token)}
  /\ registerPc' = "awaitPost"
  /\ event' = "RegisterSubmit"
  /\ UNCHANGED trendVars
  /\ UNCHANGED <<token, route, mounted, authVars, effectPending, startup, guardEffectPending>>
  /\ UNCHANGED <<loginVars, dashVars>>

\* POST /register answered: register returns true, or false from its catch.
RegisterSettle(ok) ==
  /\ Quiescent
  /\ mounted["Register"] /\ registerPc = "awaitPost"
  /\ \E q \in inflight :
       /\ q.url = "/register"
       /\ inflight' = inflight \ {q}
  /\ registerPc' = IF ok THEN "returnedTrue" ELSE "returnedFalse"
  /\ event' = "RegisterSettle"
  /\ UNCHANGED trendVars
  /\ UNCHANGED <<token, route, mounted, authVars, effectPending, startup, guardEffectPending>>
  /\ UNCHANGED <<registerError, registerLoading>>
  /\ UNCHANGED <<loginVars, dashVars>>

\* Register.handleSubmit after register returned: navigate to the login form,
\* or show the inline error; finally clear the form's loading flag.
RegisterResume ==
  /\ mounted["Register"] /\ registerPc \in {"returnedTrue", "returnedFalse"}
  /\ IF registerPc = "returnedTrue"
     THEN /\ Rendered(RegisterTarget)
          /\ event' = "RegisterNavigate"
          /\ UNCHANGED trendVars
          /\ UNCHANGED token
     ELSE /\ registerError' = "Registration failed. Please try again."
          /\ registerLoading' = FALSE
          /\ registerPc' = "idle"
          /\ event' = "RegisterRejected"
          /\ UNCHANGED trendVars
          /\ UNCHANGED <<token, route, mounted, authVars, effectPending, startup,
                         guardEffectPending, inflight>>
          /\ UNCHANGED <<loginVars, dashVars>>

-----------------------------------------------------------------------------
\* fetchData: the request it sends once the awaited one has succeeded
\* ("" when the try block is finished).
NextFetch(url) ==
  CASE url = "/attendance/summary" -> "/attendance"
    [] url = "/attendance" -> "/subjects"
    [] url = "/subjects" -> ""

\* fetchData: the request it awaits at position pc.
AwaitedUrl(pc) ==
  CASE pc = "summary" -> "/attendance/summary"
    [] pc = "records" -> "/attendance"
    [] pc = "subjects" -> "/subjects"

\* fetchData: the position after the awaited request succeeded.
NextPc(pc) ==
  CASE pc = "summary" -> "records"
    [] pc = "records" -> "subjects"
    [] pc = "subjects" -> "done"

\* Mutant: the loading flag is cleared after every response.
FetchDataFinally_Early(pc) ==
  TRUE

\* fetchData: whether its finally block runs on reaching position pc.
FetchDataFinally(pc) ==
  pc \in {"done", "failed"}

\* The request fetchData awaits succeeded with body `data`: the dataset is
\* stored and the next request is sent; after the last one, finally clears
\* the dashboard's loading flag.
FetchDataOk(data) ==
  /\ Quiescent
  /\ mounted["Dashboard"] /\ dashPc \in {"summary", "records", "subjects"}
  /\ \E q \in inflight :
       /\ q.url = AwaitedUrl(dashPc) /\ q.by = "Dashboard"
       /\ inflight' = (inflight \ {q}) \cup
            (IF NextFetch(q.url) = "" THEN {}
             ELSE {Request(NextFetch(q.url), "Dashboard", "fetchData", token)})
  /\ attendanceSummary' = IF dashPc = "summary" THEN data ELSE attendanceSummary
  /\ attendanceRecords' = IF dashPc = "records" THEN data ELSE attendanceRecords
  /\ subjects' = IF dashPc = "subjects" THEN data ELSE subjects
  /\ dashPc' = NextPc(dashPc)
  /\ dashFetch' = [u \in DataUrls |->
                     IF u = AwaitedUrl(dashPc) THEN "ok"
                     ELSE IF u = NextFetch(AwaitedUrl(dashPc)) THEN "inflight"
                     ELSE dashFetch[u]]
  /\ dashLoading' = IF FetchDataFinally(dashPc') THEN FALSE ELSE dashLoading
  /\ event' = "FetchDataOk"
  /\ UNCHANGED trendVars
  /\ UNCHANGED <<token, route, mounted, authVars, effectPending, startup, guardEffectPending>>
  /\ UNCHANGED <<loginVars, registerVars, activeTab>>

\* The request fetchData awaits failed: catch logs it, the requests after it
\* are never sent, and finally clears the dashboard's loading flag.
FetchDataFail ==
  /\ Quiescent
  /\ mounted["Dashboard"] /\ dashPc \in {"summary", "records", "subjects"}
  /\ \E q \in inflight :
       /\ q.url = AwaitedUrl(dashPc) /\ q.by = "Dashboard"
       /\ inflight' = inflight \ {q}
  /\ dashPc' = "failed"
  /\ dashFetch' = [dashFetch EXCEPT ![AwaitedUrl(dashPc)] = "fail"]
  /\ dashLoading' = IF FetchDataFinally(dashPc') THEN FALSE ELSE dashLoading
  /\ event' = "FetchDataFail"
  /\ UNCHANGED trendVars
  /\ UNCHANGED <<token, route, mounted, authVars, effectPending, startup, guardEffectPending>>
  /\ UNCHANGED <<loginVars, registerVars>>
  /\ UNCHANGED <<activeTab, attendanceSummary, attendanceRecords, subjects>>

\* Mutant: a tab click starts fetchData again.
SetActiveTab_Refetches(t) ==
  /\ Quiescent
  /\ mounted["Dashboard"] /\ ~dashLoading
  /\ activeTab' = t
  /\ dashLoading' = TRUE
  /\ dashPc' = "summary"
  /\ dashFetch' = [dashFetch EXCEPT !["/attendance/summary"] = "inflight"]
  /\ inflight' = inflight \cup
       {Request("/attendance/summary", "Dashboard", "fetchData", token)}
  /\ event' = "SetActiveTab"
  /\ UNCHANGED trendVars
  /\ UNCHANGED <<token, route, mounted, authVars, effectPending, startup, guardEffectPending>>
  /\ UNCHANGED <<loginVars, registerVars>>
  /\ UNCHANGED <<attendanceSummary, attendanceRecords, subjects>>

\* A click on one of the three tab buttons (rendered once the dashboard's own
\* loading flag is clear).
SetActiveTab(t) ==
  /\ Quiescent
  /\ mounted["Dashboard"] /\ ~dashLoading
  /\ activeTab' = t
  /\ event' = "SetActiveTab"
  /\ UNCHANGED trendVars
  /\ UNCHANGED <<token, route, mounted, authVars, effectPending, startup,
                 guardEffectPending, inflight>>
  /\ UNCHANGED <<loginVars, registerVars>>
  /\ UNCHANGED <<dashLoading, dashPc, dashFetch, attendanceSummary, attendanceRecords,
                 subjects>>

\* A click on the dashboard's Logout button: logout of Dashboard's own useAuth
\* instance.
Logout ==
  /\ Quiescent
  /\ mounted["Dashboard"] /\ ~dashLoading
  /\ token' = LogoutToken
  /\ isAuthenticated' = [isAuthenticated EXCEPT !["Dashboard"] = LogoutIsAuthenticated]
  /\ user' = [user EXCEPT !["Dashboard"] = LogoutUser]
  /\ event' = "Logout"
  /\ UNCHANGED trendVars
  /\ UNCHANGED <<route, mounted, loading, effectPending, startup, guardEffectPending, inflight>>
  /\ UNCHANGED <<loginVars, registerVars, dashVars>>

-----------------------------------------------------------------------------
Next ==
  \/ \E r \in Paths : Visit(r)
  \/ \E i \in {"Login", "Register"} : FormMountEffects(i)
  \/ GuardMountEffects
  \/ GuardEffect
  \/ DashboardMountEffects
  \/ \E i \in Instances, ok \in BOOLEAN, data \in Users : StartupFetchSettle(i, ok, data)
  \/ LoginSubmit
  \/ \E accessToken \in Tokens : LoginPostOk(accessToken)
  \/ LoginPostFail
  \/ \E ok \in BOOLEAN, data \in Users : LoginFetchSettle(ok, data)
  \/ LoginResume
  \/ RegisterSubmit
  \/ \E ok \in BOOLEAN : RegisterSettle(ok)
  \/ RegisterResume
  \/ \E data \in Payloads : FetchDataOk(data)
  \/ FetchDataFail
  \/ \E t \in Tabs : SetActiveTab(t)
  \/ Logout

Spec ==
  Init /\ [][Next]_vars

\* Effects and resumed continuations always run: React flushes the effects of
\* a commit, and a resolved promise's continuation is a queued microtask.
\* Network responses and user events are not assumed to happen.
FairSpec ==
  /\ Spec
  /\ WF_vars(\E i \in {"Login", "Register"} : FormMountEffects(i))
  /\ WF_vars(GuardMountEffects)
  /\ WF_vars(GuardEffect)
  /\ WF_vars(DashboardMountEffects)
  /\ WF_vars(LoginResume)
  /\ WF_vars(RegisterResume)

TypeOK ==
  /\ token \in {NoToken} \cup Tokens
  /\ route \in Paths
  /\ mounted \in [Instances -> BOOLEAN]
  /\ isAuthenticated \in [Instances -> BOOLEAN]
  /\ user \in [Instances -> {Null} \cup Users]
  /\ loading \in [Instances -> BOOLEAN]
  /\ effectPending \in [Instances -> BOOLEAN]
  /\ startup \in [Instances -> {"idle", "skipped", "inflight", "ok", "fail"}]
  /\ guardEffectPending \in BOOLEAN
  /\ loginPc \in {"idle", "awaitPost", "awaitMe", "returnedTrue", "returnedFalse"}
  /\ loginFetch \in {"none", "ok", "fail"}
  /\ registerPc \in {"idle", "awaitPost", "returnedTrue", "returnedFalse"}
  /\ dashLoading \in BOOLEAN
  /\ dashPc \in {"idle", "summary", "records", "subjects", "done", "failed"}
  /\ dashFetch \in [DataUrls -> {"none", "inflight", "ok", "fail"}]
  /\ activeTab \in Tabs
  /\ attendanceSummary \in Payloads
  /\ attendanceRecords \in Payloads
  /\ subjects \in Payloads

-----------------------------------------------------------------------------
\* C1: in every reachable state, for every mounted useAuth instance, if no
\* token is persisted then isAuthenticated is false.
C1_NoTokenNotAuthenticated ==
  \A i \in Instances :
    (mounted[i] /\ token = NoToken) => ~isAuthenticated[i]

\* C2 as stated: in every reachable state of a useAuth instance,
\* isAuthenticated is true if and only if a user is stored.
C2_AuthenticatedIffUser ==
  \A i \in Instances :
    mounted[i] => (isAuthenticated[i] <=> user[i] # Null)

\* C2 as amended: a stored user implies isAuthenticated, and isAuthenticated
\* without a stored user occurs only in the Login form's instance while login
\* awaits the fetchUser it started after POST /login succeeded.
C2_AuthenticatedIffUserExceptInLogin ==
  \A i \in Instances :
    mounted[i] =>
      /\ user[i] # Null => isAuthenticated[i]
      /\ (isAuthenticated[i] /\ user[i] = Null) => (i = "Login" /\ loginPc = "awaitMe")

C2_Witness ==
  /\ mounted["Login"] /\ loginPc = "awaitMe"
  /\ isAuthenticated["Login"] /\ user["Login"] = Null

\* C3: when login returns after its POST /login succeeded and the fetchUser it
\* awaited failed, it returns true and the session has isAuthenticated = false
\* and user = null.
C3_LoginFailsClosed ==
  (mounted["Login"] /\ loginFetch = "fail" /\ loginPc \in {"returnedTrue", "returnedFalse"})
    => (loginPc = "returnedTrue" /\ ~isAuthenticated["Login"] /\ user["Login"] = Null)

C3_Witness ==
  mounted["Login"] /\ loginFetch = "fail" /\ loginPc = "returnedTrue"

\* C4: the mount effects of a useAuth instance that finds no persisted token
\* leave it with loading = false, isAuthenticated = false and user = null and
\* send no GET /me; and an instance mounted without a token does reach that
\* state.
C4_NoTokenStartup ==
  /\ [][\A i \in Instances :
          (mounted[i] /\ effectPending[i] /\ token = NoToken
             /\ mounted'[i] /\ ~effectPending'[i])
          => /\ ~loading'[i] /\ ~isAuthenticated'[i] /\ user'[i] = Null
             /\ \A q \in inflight' \ inflight : q.url # "/me" /\ q.via # "startup"
             /\ startup'[i] = "skipped"]_vars
  /\ \A i \in Instances :
       (mounted[i] /\ effectPending[i] /\ token = NoToken)
         ~> (~loading[i] /\ ~isAuthenticated[i] /\ user[i] = Null)

C4_Witness ==
  \E i \in Instances :
    /\ mounted[i] /\ startup[i] = "skipped" /\ event = "MountEffects"
    /\ ~loading[i] /\ ~isAuthenticated[i] /\ inflight = {}

\* C5: ProtectedRoute calls navigate("/login") only in a state where its
\* session's loading flag is false, and while loading is true the wrapped view
\* is not mounted.
C5_NoRedirectWhileLoading ==
  /\ [][event' = "GuardRedirect"
          => (mounted["ProtectedRoute"] /\ ~loading["ProtectedRoute"])]_vars
  /\ []((mounted["ProtectedRoute"] /\ loading["ProtectedRoute"]) => ~mounted["Dashboard"])

C5_Witness ==
  /\ mounted["ProtectedRoute"] /\ loading["ProtectedRoute"]
  /\ ~effectPending["ProtectedRoute"] /\ ~guardEffectPending
  /\ startup["ProtectedRoute"] = "inflight"

\* C6: when ProtectedRoute mounts with a persisted token, the guard redirects
\* only after its startup GET /me has failed; if the fetch succeeded the
\* wrapped view is rendered and no redirect follows; if it failed the wrapped
\* view is not rendered and the guard does redirect to /login.
C6_GuardDecidedByStartupFetch ==
  /\ [][event' = "GuardRedirect"
          => startup["ProtectedRoute"] \in {"fail", "skipped"}]_vars
  /\ []((mounted["ProtectedRoute"] /\ startup["ProtectedRoute"] = "ok")
          => (mounted["Dashboard"] /\ GuardRender(loading["ProtectedRoute"],
                                                   isAuthenticated["ProtectedRoute"]) = "children"))
  /\ []((mounted["ProtectedRoute"] /\ startup["ProtectedRoute"] = "fail")
          => ~mounted["Dashboard"])
  /\ (mounted["ProtectedRoute"] /\ startup["ProtectedRoute"] = "fail")
       ~> (event = "GuardRedirect" /\ route = "/login")

C6_Witness ==
  /\ mounted["ProtectedRoute"] /\ startup["ProtectedRoute"] = "ok"
  /\ mounted["Dashboard"] /\ token # NoToken

\* C7 as stated: the dashboard's loading flag is false only when each of the
\* three requests has been sent and has settled.
C7_LoadingClearedAfterAllThree ==
  (mounted["Dashboard"] /\ ~dashLoading)
    => \A u \in DataUrls : dashFetch[u] \in {"ok", "fail"}

\* C7 as amended: the three requests are sent one after another, each only
\* after the one before it succeeded, and the dashboard's loading flag is
\* false only when none of them is in flight and either all three succeeded
\* or one failed (the ones after it never sent).
C7_LoadingClearedAfterChainEnds ==
  mounted["Dashboard"] =>
    /\ dashFetch["/attendance"] # "none" => dashFetch["/attendance/summary"] = "ok"
    /\ dashFetch["/subjects"] # "none" => dashFetch["/attendance"] = "ok"
    /\ ~dashLoading =>
         /\ \A u \in DataUrls : dashFetch[u] # "inflight"
         /\ \A q \in inflight : q.via # "fetchData"
         /\ \/ \A u \in DataUrls : dashFetch[u] = "ok"
            \/ \E u \in DataUrls : dashFetch[u] = "fail"

C7_Witness ==
  /\ mounted["Dashboard"] /\ ~dashLoading
  /\ dashFetch["/attendance/summary"] = "fail"
  /\ dashFetch["/attendance"] = "none" /\ dashFetch["/subjects"] = "none"

\* C8: logout removes the persisted token and sets isAuthenticated = false and
\* user = null in one step, sends no request and leaves loading unchanged.
C8_LogoutFrame ==
  [][event' = "Logout"
       => /\ token' = NoToken
          /\ ~isAuthenticated'["Dashboard"] /\ user'["Dashboard"] = Null
          /\ inflight' = inflight
          /\ loading' = loading]_vars

C8_Witness ==
  /\ event = "Logout" /\ token = NoToken
  /\ loading["Dashboard"] /\ ~isAuthenticated["Dashboard"]

\* C9: when POST /login fails, login returns false without throwing, leaves the
\* persisted token, isAuthenticated and user as they were and sends no GET
\* /me; the Login form then shows the inline error and stays on /login.
C9_LoginFailure ==
  /\ [][(event' = "LoginSubmit"
           => token' = token /\ isAuthenticated' = isAuthenticated /\ user' = user)
        /\ (event' = "LoginPostFail"
           => /\ loginPc' = "returnedFalse"
              /\ token' = token /\ isAuthenticated' = isAuthenticated /\ user' = user
              /\ inflight' \subseteq inflight)
        /\ ((loginPc = "returnedFalse" /\ loginPc' # loginPc)
           => /\ loginError' = "Invalid email or password"
              /\ route' = route /\ mounted' = mounted
              /\ token' = token /\ isAuthenticated' = isAuthenticated /\ user' = user
              /\ inflight' \subseteq inflight)]_vars
  /\ [](loginError \in {"", "Invalid email or password"})

C9_Witness ==
  /\ event = "LoginRejected" /\ route = "/login" /\ mounted["Login"]
  /\ loginError = "Invalid email or password"

\* C10: register returns a boolean without throwing and leaves the persisted
\* token, isAuthenticated, user and loading unchanged, whether POST /register
\* succeeded or failed; after a successful registration the form navigates to
\* /login, where the session is not authenticated.
C10_RegisterFrame ==
  /\ [][(event' \in {"RegisterSubmit", "RegisterSettle"}
           => /\ token' = token
              /\ isAuthenticated' = isAuthenticated /\ user' = user /\ loading' = loading)
        /\ (event' = "RegisterSettle" => registerPc' \in {"returnedTrue", "returnedFalse"})
        /\ ((registerPc = "returnedTrue" /\ registerPc' # registerPc)
           => /\ route' = "/login" /\ mounted'["Login"]
              /\ token' = token
              /\ \A i \in Instances : ~isAuthenticated'[i] /\ user'[i] = Null)
        /\ ((registerPc = "returnedFalse" /\ registerPc' # registerPc)
           => /\ route' = route /\ token' = token
              /\ isAuthenticated' = isAuthenticated /\ user' = user /\ loading' = loading)]_vars
  /\ [](registerError \in {"", "Registration failed. Please try again."})

C10_Witness ==
  /\ event = "RegisterNavigate" /\ route = "/login" /\ mounted["Login"]

-----------------------------------------------------------------------------
\* C14: every request carries as its bearer credential the token persisted at
\* the moment it is issued, and no Authorization header when none is
\* persisted; a request issued by login after it stored a token carries the
\* new token, and a request issued after logout carries none.
C14_RequestsCarryPersistedToken ==
  [][\A q \in inflight' \ inflight :
       q.auth = IF token' = NoToken THEN <<>> ELSE <<"Bearer", token'>>]_vars

C14_Witness ==
  \E q1, q2 \in inflight :
    /\ q1.url = "/me" /\ q1.by = "Login" /\ q1.via = "startup"
    /\ q2.url = "/me" /\ q2.by = "Login" /\ q2.via = "login"
    /\ q1.auth # <<>> /\ q2.auth # q1.auth
    /\ q2.auth = <<"Bearer", token>>
    /\ event = "LoginPostOk"

\* C15: activeTab is always one of summary, trend, details and is summary when
\* the dashboard mounts; a tab click changes only activeTab (the datasets, the
\* loading flag and the requests in flight stay as they are); and no dataset
\* request is issued a second time during one mount.
C15_TabSwitchIsLocal ==
  /\ [](activeTab \in Tabs)
  /\ [][(mounted'["Dashboard"] /\ ~mounted["Dashboard"]) => activeTab' = "summary"]_vars
  /\ [][event' = "SetActiveTab"
          => /\ attendanceSummary' = attendanceSummary
             /\ attendanceRecords' = attendanceRecords
             /\ subjects' = subjects
             /\ dashLoading' = dashLoading
             /\ inflight' = inflight
             /\ token' = token /\ authVars' = authVars /\ route' = route]_vars
  /\ [][(mounted["Dashboard"] /\ mounted'["Dashboard"])
          => \A u \in DataUrls :
               dashFetch[u] # "none"
                 => /\ dashFetch'[u] # "none"
                    /\ ~(dashFetch[u] # "inflight" /\ dashFetch'[u] = "inflight")
                    /\ \A q \in inflight' \ inflight : q.url # u]_vars

C15_Witness ==
  /\ mounted["Dashboard"] /\ event = "SetActiveTab" /\ activeTab = "details"
  /\ \A u \in DataUrls : dashFetch[u] = "ok"
  /\ attendanceRecords # Empty

\* C16: in every reachable state in which ProtectedRoute renders the
\* Dashboard, a token is persisted and the session is authenticated; so once
\* logout has run from the dashboard, the dashboard is no longer rendered.
C16_DashboardOnlyWhenAuthenticated ==
  mounted["Dashboard"]
    => /\ token # NoToken
       /\ isAuthenticated["ProtectedRoute"]

\* C17: the persisted token changes only when login stores the token of a
\* successful POST /login or when logout removes it; fetchUser leaves it as it
\* is, and after a failed fetchUser the instance has isAuthenticated = false
\* and user = null.
C17_TokenWrittenByLoginRemovedByLogout ==
  /\ [][token' # token
          => \/ event' = "LoginPostOk" /\ token' \in Tokens
             \/ event' = "Logout" /\ token' = NoToken]_vars
  /\ [][event' \in {"StartupFetchSettle", "LoginFetchSettle"} => token' = token]_vars
  /\ [][\A i \in Instances :
          (startup[i] = "inflight" /\ startup'[i] = "fail")
            => (~isAuthenticated'[i] /\ user'[i] = Null /\ token' = token)]_vars
  /\ [][(loginFetch' = "fail" /\ event' = "LoginFetchSettle")
          => (~isAuthenticated'["Login"] /\ user'["Login"] = Null /\ token' = token)]_vars

C17_Witness ==
  /\ event = "StartupFetchSettle"
  /\ mounted["ProtectedRoute"] /\ startup["ProtectedRoute"] = "fail"
  /\ ~isAuthenticated["ProtectedRoute"] /\ user["ProtectedRoute"] = Null
  /\ token # NoToken

-----------------------------------------------------------------------------
(***************************************************************************)
(* Dashboard.getTrendData, run on a list of attendance records in a       *)
(* runtime with a given default locale.  A label is the text              *)
(* toLocaleDateString() produces, kept as the sequence of its numeric     *)
(* fields in the order they are written; the year, the same for all       *)
(* sample records, is left out.  A percentage is kept as an exact         *)
(* fraction num / den (JavaScript computes it in floating point).         *)
(***************************************************************************)

\* Mutant: the label is made with toLocaleString(), which includes the time.
ToLocaleDateString_WithTime(date, loc) ==
  IF loc = "en-US" THEN <<date.month, date.day, date.time>>
  ELSE <<date.day, date.month, date.time>>

\* new Date(record.date).toLocaleDateString(): month/day in en-US, day/month
\* in en-GB.
ToLocaleDateString(date, loc) ==
  IF loc = "en-US" THEN <<date.month, date.day>> ELSE <<date.day, date.month>>

\* The time value of an Invalid Date.
NaN == -1

\* new Date(label): the date parser reads a numeric a/b/yyyy text month
\* first, whatever locale wrote it, and gives an Invalid Date when the month
\* is out of range.  The value orders the days of the year.
DateValue(label) ==
  IF label[1] \in 1..12 THEN 31 * label[1] + label[2] ELSE NaN

\* The sort comparator, new Date(a) - new Date(b); a NaN result counts as 0.
Compare(a, b) ==
  IF DateValue(a) = NaN \/ DateValue(b) = NaN THEN 0 ELSE DateValue(a) - DateValue(b)

\* Array.prototype.sort with that comparator: a stable sort, here by insertion.
RECURSIVE Insert(_, _)
Insert(sorted, x) ==
  IF sorted = <<>> THEN <<x>>
  ELSE IF Compare(Head(sorted), x) <= 0 THEN <<Head(sorted)>> \o Insert(Tail(sorted), x)
  ELSE <<x>> \o sorted

RECURSIVE SortDates(_)
SortDates(keys) ==
  IF keys = <<>> THEN <<>>
  ELSE Insert(SortDates(SubSeq(keys, 1, Len(keys) - 1)), keys[Len(keys)])

\* Mutant: every record counts as present.
IsPresent_Always(status) ==
  TRUE

\* record.status === 'present'
IsPresent(status) ==
  status = "present"

\* One iteration of the forEach: the object after the record is counted.
GroupRecord(byDate, record, loc) ==
  LET date == ToLocaleDateString(record.date, loc)
      known == \E k \in DOMAIN byDate : byDate[k].key = date
      withKey == IF known THEN byDate
                 ELSE Append(byDate, [key |-> date, present |-> 0, total |-> 0])
  IN [k \in DOMAIN withKey |->
        IF withKey[k].key = date
        THEN [key |-> date,
              present |-> withKey[k].present + (IF IsPresent(record.status) THEN 1 ELSE 0),
              total |-> withKey[k].total + 1]
        ELSE withKey[k]]

\* total > 0 ? (present / total) * 100 : 0
Percentage(present, total) ==
  IF total > 0 THEN [num |-> present * 100, den |-> total] ELSE [num |-> 0, den |-> 1]

\* recordsByDate[date]
Entry(byDate, date) ==
  CHOOSE e \in {byDate[k] : k \in DOMAIN byDate} : e.key = date

\* The rest of the application is held at a page load of the dashboard route;
\* getTrendData reads only the records and the locale.
TrendInit ==
  /\ AppInit /\ route = "/dashboard"
  /\ locale \in Locales
  /\ records \in RecordLists
  /\ trendPc = "forEach"
  /\ trendIdx = 1
  /\ recordsByDate = <<>>
  /\ dates = <<>>
  /\ percentages = <<>>

appVars == <<token, route, mounted, authVars, effectPending, startup, guardEffectPending,
             inflight, loginVars, registerVars, dashVars, event>>

\* attendanceRecords.forEach: one record is grouped under its label.
TrendForEach ==
  /\ trendPc = "forEach" /\ trendIdx <= Len(records)
  /\ recordsByDate' = GroupRecord(recordsByDate, records[trendIdx], locale)
  /\ trendIdx' = trendIdx + 1
  /\ UNCHANGED <<locale, records, trendPc, dates, percentages, appVars>>

\* Object.keys(recordsByDate).sort(...)
TrendSortDates ==
  /\ trendPc = "forEach" /\ trendIdx > Len(records)
  /\ dates' = SortDates([k \in DOMAIN recordsByDate |-> recordsByDate[k].key])
  /\ trendPc' = "map"
  /\ UNCHANGED <<locale, records, trendIdx, recordsByDate, percentages, appVars>>

\* dates.map(...) and the return of labels and data.
TrendMapPercentages ==
  /\ trendPc = "map"
  /\ percentages' = [k \in DOMAIN dates |->
                       Percentage(Entry(recordsByDate, dates[k]).present,
                                  Entry(recordsByDate, dates[k]).total)]
  /\ trendPc' = "done"
  /\ UNCHANGED <<locale, records, trendIdx, recordsByDate, dates, appVars>>

TrendNext ==
  \/ TrendForEach
  \/ TrendSortDates
  \/ TrendMapPercentages

TrendSpec ==
  TrendInit /\ [][TrendNext]_vars

-----------------------------------------------------------------------------
\* The calendar day a label denotes in the locale that wrote it.
DayOfLabel(label, loc) ==
  IF loc = "en-US" THEN <<label[1], label[2]>> ELSE <<label[2], label[1]>>

\* The calendar day of a record.
DayOfRecord(record) ==
  <<record.date.month, record.date.day>>

\* Calendar order of two days of the year.
DayBefore(d, e) ==
  d[1] < e[1] \/ (d[1] = e[1] /\ d[2] < e[2])

RecordsOn(day) ==
  {k \in DOMAIN records : DayOfRecord(records[k]) = day}

PresentOn(day) ==
  {k \in RecordsOn(day) : records[k].status = "present"}

\* C11: the labels getTrendData returns are pairwise distinct calendar days in
\* strictly ascending calendar order, whatever the order of the records.
C11_LabelsAscending ==
  trendPc = "done" =>
    \A i, j \in DOMAIN dates :
      i < j => DayBefore(DayOfLabel(dates[i], locale), DayOfLabel(dates[j], locale))

\* C12: labels and values have the same length, and for every returned date,
\* with total the number of records on that day and present the number of
\* those marked present, 0 <= present <= total, the value at the date's index
\* is 100 * present / total, and it lies in [0, 100].
C12_PercentagePerDay ==
  trendPc = "done" =>
    /\ Len(dates) = Len(percentages)
    /\ \A i \in DOMAIN dates :
         LET day == DayOfLabel(dates[i], locale)
             total == Cardinality(RecordsOn(day))
             present == Cardinality(PresentOn(day))
             value == percentages[i]
         IN /\ 0 <= present /\ present <= total /\ total > 0
            /\ value.den > 0
            /\ value.num * total = 100 * present * value.den
            /\ 0 <= value.num /\ value.num <= 100 * value.den

C12_Witness ==
  /\ trendPc = "done" /\ Len(records) = 3
  /\ DayOfRecord(records[1]) = DayOfRecord(records[2])
  /\ records[1].status = "present" /\ records[2].status = "absent"
  /\ DayOfRecord(records[3]) # DayOfRecord(records[1])
  /\ records[3].status = "present"
  /\ {percentages[i] : i \in DOMAIN percentages}
       = {[num |-> 100, den |-> 2], [num |-> 100, den |-> 1]}

\* C13: getTrendData returns exactly one point for each calendar day that has
\* a record and none for any other day; records of one day at different times
\* share a point; no records give empty labels and empty values.
C13_OnePointPerDay ==
  trendPc = "done" =>
    /\ {DayOfLabel(dates[i], locale) : i \in DOMAIN dates}
         = {DayOfRecord(records[k]) : k \in DOMAIN records}
    /\ Len(dates) = Cardinality({DayOfRecord(records[k]) : k \in DOMAIN records})
    /\ Len(percentages) = Len(dates)
    /\ records = <<>> => (dates = <<>> /\ percentages = <<>>)

C13_Witness ==
  /\ trendPc = "done" /\ Len(records) = 2 /\ Len(dates) = 1
  /\ DayOfRecord(records[1]) = DayOfRecord(records[2])
  /\ records[1].date.time # records[2].date.time

====
